---- MODULE Spec2Model ----
(***************************************************************************)
(* Model of src/main.py: the RetryDecorator wrapper (bounded retry) and    *)
(* the log_to_file wrapper (call recorder) around the Calculator methods.  *)
(*                                                                         *)
(* A "failure" of a wrapped function is an exception derived from          *)
(* Exception, the class both handlers catch (main.py:22, main.py:137).     *)
(***************************************************************************)
EXTENDS Integers, Sequences, FiniteSets, TLC

VARIABLES
    \* ---- RetryDecorator (main.py:124-142)
    rpc,        \* position: "new", "ready" (constructed), "loop", "done"
    retries,    \* self.retries
    attempts,   \* local `attempts` of wrapper
    hist,       \* outcome of every invocation of func made by the current call
    notes,      \* the "Retry n/total ..." lines printed by the current call
    outcome,    \* what the current call handed to its caller
    \* ---- log_to_file + Calculator (main.py:13-66)
    cpc,        \* position: "idle", "try", "logSuccess", "logFailure"
    cur,        \* the call in progress: method name and argument
    value,      \* Calculator.value, a rational <<numerator, denominator>>
    result,     \* local `result` of wrapper
    exc,        \* the exception being handled by the except clause
    log,        \* the lines of application.log, oldest first
    caller,     \* what the last completed call handed to its caller
    funcOut,    \* what func itself did in the current call
    funcRuns,   \* number of executions of func in the current call
    appendTries,\* number of appends to the log attempted in the current call
    logAtCall,  \* the log when the current call started
    valueAtCall,\* Calculator.value when the current call started
    completed,  \* the wrapped calls completed so far, in completion order
    calls       \* number of wrapped calls started

retryVars == <<rpc, retries, attempts, hist, notes, outcome>>
recVars == <<cpc, cur, value, result, exc, log, caller, funcOut, funcRuns,
             appendTries, logAtCall, valueAtCall, completed, calls>>
vars == <<retryVars, recVars>>

----------------------------------------------------------------------------
\* Bounds of the model
MaxRetriesArg == 3      \* retries arguments tried: -NegRetries .. MaxRetriesArg
NegRetries == 1
MaxCalls == 3           \* wrapped Calculator calls per behaviour

\* Program constant
MAX_RETRIES == 5

None == "None"

----------------------------------------------------------------------------
\* RetryDecorator

RetriesArgs == ((0 - NegRetries) .. MaxRetriesArg) \cup {MAX_RETRIES}

\* what one invocation of the wrapped function can do
FuncValues == {"Success", "Other"}
FuncErrors == {"Something went wrong!", "Another error"}

Ok(v) == [kind |-> "ok", val |-> v]
Err(e) == [kind |-> "err", val |-> e]
Return(v) == [kind |-> "return", val |-> v]
Raise(e) == [kind |-> "raise", val |-> e]
NoOutcome == [kind |-> "none", val |-> None]

\* while attempts < self.retries
LoopCond(a, r) == a < r

Exhausted_OffByOne(a, r) == a + 1 = r

\* if attempts == self.retries
Exhausted(a, r) == a = r

\* print(f"Retry {attempts}/{self.retries} for ... due to error: {str(e)}")
RetryMessage(a, r, e) == [n |-> a, total |-> r, err |-> e]

\* RetryDecorator.__init__: stores retries, validates nothing
Construct ==
    /\ rpc = "new"
    /\ \E r \in RetriesArgs : retries' = r
    /\ rpc' = "ready"
    /\ UNCHANGED <<attempts, hist, notes, outcome>>
    /\ UNCHANGED recVars

\* wrapper is entered: attempts = 0
Call ==
    /\ rpc \in {"ready", "done"}
    /\ attempts' = 0
    /\ hist' = <<>>
    /\ notes' = <<>>
    /\ outcome' = NoOutcome
    /\ rpc' = "loop"
    /\ UNCHANGED retries
    /\ UNCHANGED recVars

AttemptOk_NoReturn ==
    /\ rpc = "loop"
    /\ LoopCond(attempts, retries)
    /\ \E v \in FuncValues :
          /\ hist' = Append(hist, Ok(v))
          /\ outcome' = Return(v)
    /\ attempts' = attempts + 1
    /\ rpc' = IF attempts' = retries THEN "done" ELSE "loop"
    /\ UNCHANGED <<retries, notes>>
    /\ UNCHANGED recVars

\* return func(*args, **kwargs), func returning
AttemptOk ==
    /\ rpc = "loop"
    /\ LoopCond(attempts, retries)
    /\ \E v \in FuncValues :
          /\ hist' = Append(hist, Ok(v))
          /\ outcome' = Return(v)
    /\ rpc' = "done"
    /\ UNCHANGED <<retries, attempts, notes>>
    /\ UNCHANGED recVars

AttemptFail_NotifyFirst ==
    /\ rpc = "loop"
    /\ LoopCond(attempts, retries)
    /\ \E e \in FuncErrors :
          /\ hist' = Append(hist, Err(e))
          /\ attempts' = attempts + 1
          /\ notes' = Append(notes, RetryMessage(attempts', retries, e))
          /\ IF Exhausted(attempts', retries)
                THEN /\ outcome' = Raise(e)
                     /\ rpc' = "done"
                ELSE /\ UNCHANGED <<outcome, rpc>>
    /\ UNCHANGED retries
    /\ UNCHANGED recVars

\* func raising: except Exception as e: count, re-raise when exhausted,
\* otherwise print the retry line and go round the loop
AttemptFail ==
    /\ rpc = "loop"
    /\ LoopCond(attempts, retries)
    /\ \E e \in FuncErrors :
          /\ hist' = Append(hist, Err(e))
          /\ attempts' = attempts + 1
          /\ IF Exhausted(attempts', retries)
                THEN /\ outcome' = Raise(e)
                     /\ rpc' = "done"
                     /\ UNCHANGED notes
                ELSE /\ notes' = Append(notes, RetryMessage(attempts', retries, e))
                     /\ UNCHANGED <<outcome, rpc>>
    /\ UNCHANGED retries
    /\ UNCHANGED recVars

\* the while condition is false: the wrapper falls off its end, returning None
LoopExit ==
    /\ rpc = "loop"
    /\ ~LoopCond(attempts, retries)
    /\ outcome' = Return(None)
    /\ rpc' = "done"
    /\ UNCHANGED <<retries, attempts, hist, notes>>
    /\ UNCHANGED recVars

InitRetry ==
    /\ rpc = "new"
    /\ retries = MAX_RETRIES
    /\ attempts = 0
    /\ hist = <<>>
    /\ notes = <<>>
    /\ outcome = NoOutcome

----------------------------------------------------------------------------
\* Calculator (main.py:29-66).  Calculator.value is a float; the model keeps
\* it exact, as a fraction in lowest terms with a positive denominator.

RECURSIVE GCD(_, _)
GCD(a, b) == IF b = 0 THEN a ELSE GCD(b, a % b)

Abs(n) == IF n < 0 THEN 0 - n ELSE n

Norm(n, d) ==
    LET g == GCD(Abs(n), Abs(d))
        s == IF d < 0 THEN 0 - 1 ELSE 1
    IN  <<(s * n) \div g, (s * d) \div g>>

Zero == <<0, 1>>
NoValue == <<0, 0>>     \* `result = None`

\* the arguments the methods are called with
Nums == {0, 2, 3}
Methods == {"add", "subtract", "multiply", "divide"}

NoExc == [type |-> "none", msg |-> ""]
DivideByZero == [type |-> "ValueError", msg |-> "Cannot divide by zero."]
\* open(LOG_FILE_PATH, 'a') or log_file.write(...) failing
SinkError == [type |-> "OSError", msg |-> "application.log"]

FOk(v) == [kind |-> "ok", val |-> v, exc |-> NoExc]
FErr(e) == [kind |-> "err", val |-> NoValue, exc |-> e]
FNone == [kind |-> "none", val |-> NoValue, exc |-> NoExc]

\* self.value += num
add(v, num) == Norm(v[1] + num * v[2], v[2])
\* self.value -= num
subtract(v, num) == Norm(v[1] - num * v[2], v[2])
\* self.value *= num
multiply(v, num) == Norm(v[1] * num, v[2])

\* if num == 0: raise ValueError("Cannot divide by zero.")
DivideRaises(num) == num = 0

\* self.value /= num; when divide raises, the value is not assigned
divide(v, num) == IF DivideRaises(num) THEN v ELSE Norm(v[1], v[2] * num)

\* the value of self.value after the method body has run
ValueAfter(name, v, num) ==
    CASE name = "add" -> add(v, num)
      [] name = "subtract" -> subtract(v, num)
      [] name = "multiply" -> multiply(v, num)
      [] name = "divide" -> divide(v, num)

\* what the method body does: return self.value, or raise
FuncOutcome(name, v, num) ==
    IF name = "divide" /\ DivideRaises(num)
        THEN FErr(DivideByZero)
        ELSE FOk(ValueAfter(name, v, num))

----------------------------------------------------------------------------
\* log_to_file (main.py:13-27)

\* "... - {func.__name__} - SUCCESS - Args: ..., Result: {result}"
SuccessLine(c, r) ==
    [name |-> c.name, outcome |-> "SUCCESS", arg |-> c.arg, res |-> r, err |-> ""]

\* "... - {func.__name__} - FAILURE - Args: ..., Error: {str(e)}"
FailureLine(c, e) ==
    [name |-> c.name, outcome |-> "FAILURE", arg |-> c.arg, res |-> NoValue,
     err |-> e.msg]

CReturn(v) == [kind |-> "return", val |-> v, exc |-> NoExc]
CRaise(e) == [kind |-> "raise", val |-> NoValue, exc |-> e]
CNone == [kind |-> "none", val |-> NoValue, exc |-> NoExc]

NoCall == [name |-> "none", arg |-> 0]

\* a wrapped Calculator method is called: wrapper starts, result = None
CallMethod ==
    /\ cpc = "idle"
    /\ calls < MaxCalls
    /\ \E m \in Methods, num \in Nums : cur' = [name |-> m, arg |-> num]
    /\ result' = NoValue
    /\ exc' = NoExc
    /\ cpc' = "try"
    /\ caller' = CNone
    /\ funcOut' = FNone
    /\ funcRuns' = 0
    /\ appendTries' = 0
    /\ logAtCall' = log
    /\ valueAtCall' = value
    /\ calls' = calls + 1
    /\ UNCHANGED <<value, log, completed>>
    /\ UNCHANGED retryVars

\* result = func(*args, **kwargs)
RunFunc ==
    /\ cpc = "try"
    /\ LET out == FuncOutcome(cur.name, value, cur.arg)
       IN  /\ value' = ValueAfter(cur.name, value, cur.arg)
           /\ funcOut' = out
           /\ IF out.kind = "ok"
                 THEN /\ result' = out.val
                      /\ cpc' = "logSuccess"
                      /\ UNCHANGED exc
                 ELSE /\ exc' = out.exc
                      /\ cpc' = "logFailure"
                      /\ UNCHANGED result
    /\ funcRuns' = funcRuns + 1
    /\ UNCHANGED <<cur, log, caller, appendTries, logAtCall, valueAtCall,
                   completed, calls>>
    /\ UNCHANGED retryVars

\* the SUCCESS line is written, then `return result`
AppendSuccess ==
    /\ cpc = "logSuccess"
    /\ log' = Append(log, SuccessLine(cur, result))
    /\ appendTries' = appendTries + 1
    /\ caller' = CReturn(result)
    /\ completed' = Append(completed, cur)
    /\ cpc' = "idle"
    /\ UNCHANGED <<cur, value, result, exc, funcOut, funcRuns, logAtCall,
                   valueAtCall, calls>>
    /\ UNCHANGED retryVars

\* opening or writing the log raises inside the try block: the exception is
\* caught by `except Exception as e` of the same try
AppendSuccessFault ==
    /\ cpc = "logSuccess"
    /\ appendTries' = appendTries + 1
    /\ exc' = SinkError
    /\ cpc' = "logFailure"
    /\ UNCHANGED <<cur, value, result, log, caller, funcOut, funcRuns,
                   logAtCall, valueAtCall, completed, calls>>
    /\ UNCHANGED retryVars

\* the FAILURE line is written, then `raise` re-raises the handled exception
AppendFailure ==
    /\ cpc = "logFailure"
    /\ log' = Append(log, FailureLine(cur, exc))
    /\ appendTries' = appendTries + 1
    /\ caller' = CRaise(exc)
    /\ completed' = Append(completed, cur)
    /\ cpc' = "idle"
    /\ UNCHANGED <<cur, value, result, exc, funcOut, funcRuns, logAtCall,
                   valueAtCall, calls>>
    /\ UNCHANGED retryVars

\* opening or writing the log raises inside the except block: that exception
\* leaves the wrapper
AppendFailureFault ==
    /\ cpc = "logFailure"
    /\ appendTries' = appendTries + 1
    /\ caller' = CRaise(SinkError)
    /\ completed' = Append(completed, cur)
    /\ cpc' = "idle"
    /\ UNCHANGED <<cur, value, result, exc, log, funcOut, funcRuns, logAtCall,
                   valueAtCall, calls>>
    /\ UNCHANGED retryVars

\* Calculator.reset: not wrapped, nothing is logged
Reset ==
    /\ cpc = "idle"
    /\ value' = Zero
    /\ cpc' = "idle"
    /\ cur' = NoCall
    /\ caller' = CNone
    /\ funcOut' = FNone
    /\ UNCHANGED <<result, exc, log, funcRuns, appendTries, logAtCall,
                   valueAtCall, completed, calls>>
    /\ UNCHANGED retryVars

\* Calculator(): initial_value = 0.0; the log starts empty
InitRecorder ==
    /\ cpc = "idle"
    /\ cur = NoCall
    /\ value = Zero
    /\ result = NoValue
    /\ exc = NoExc
    /\ log = <<>>
    /\ caller = CNone
    /\ funcOut = FNone
    /\ funcRuns = 0
    /\ appendTries = 0
    /\ logAtCall = <<>>
    /\ valueAtCall = Zero
    /\ completed = <<>>
    /\ calls = 0

----------------------------------------------------------------------------
Init == InitRetry /\ InitRecorder

NextRetry ==
    \/ Construct
    \/ Call
    \/ AttemptOk
    \/ AttemptFail
    \/ LoopExit

NextRecorder ==
    \/ CallMethod
    \/ RunFunc
    \/ AppendSuccess
    \/ AppendSuccessFault
    \/ AppendFailure
    \/ AppendFailureFault
    \/ Reset

\* one call chain through a RetryDecorator-wrapped function
SpecRetry == Init /\ [][NextRetry]_vars

\* calls of the log_to_file-wrapped Calculator methods
SpecRecorder == Init /\ [][NextRecorder]_vars

----------------------------------------------------------------------------
\* Properties of the RetryDecorator wrapper (checked under SpecRetry)

AlwaysFails == \A i \in 1..Len(hist) : hist[i].kind = "err"

FirstOk(j) ==
    /\ hist[j].kind = "ok"
    /\ \A i \in 1..(j - 1) : hist[i].kind = "err"

\* C1: a finished call of the wrapper has invoked the function between 1 and
\* retries times, and has produced exactly one terminal outcome: the value
\* returned by its last invocation, or the failure raised by its last
\* invocation.
C1_InvocationsBounded ==
    rpc = "done" =>
        /\ 1 <= Len(hist)
        /\ Len(hist) <= retries
        /\ \/ hist[Len(hist)].kind = "ok" /\ outcome = Return(hist[Len(hist)].val)
           \/ hist[Len(hist)].kind = "err" /\ outcome = Raise(hist[Len(hist)].val)

\* C2: with retries = k >= 1 and a function that fails on every invocation,
\* the call never invokes it more than k times, and when the call is over it
\* has invoked it exactly k times and raised the failure of the k-th
\* invocation.
C2_ExhaustionPropagatesLast ==
    (retries >= 1 /\ rpc \in {"loop", "done"} /\ AlwaysFails) =>
        /\ Len(hist) <= retries
        /\ rpc = "loop" => Len(hist) < retries
        /\ rpc = "done" =>
              /\ Len(hist) = retries
              /\ outcome = Raise(hist[retries].val)

C2_Witness ==
    /\ rpc = "done"
    /\ retries = 3
    /\ AlwaysFails
    /\ Len(hist) = 3
    /\ hist[3].val # hist[2].val
    /\ outcome = Raise(hist[3].val)

\* C3: with retries = k >= 1 and a function that fails on attempts 1..j-1
\* and succeeds on attempt j <= k, the call invokes it exactly j times and
\* returns the value of the j-th invocation: a success ends the call at
\* once, and the call gives up without a success only after k invocations.
C3_FirstSuccessReturns ==
    /\ \A j \in 1..Len(hist) :
          FirstOk(j) =>
              /\ rpc = "done"
              /\ Len(hist) = j
              /\ j <= retries
              /\ outcome = Return(hist[j].val)
    /\ (retries >= 1 /\ rpc = "done" /\ AlwaysFails) => Len(hist) = retries

C3_Witness ==
    /\ rpc = "done"
    /\ retries = 3
    /\ Len(hist) = 2
    /\ FirstOk(2)
    /\ outcome = Return(hist[2].val)

\* C4: a retrier with retries <= 0 is never constructed (construction
\* fails), so no call of its wrapper ever returns without having invoked
\* the function.
C4_NonPositiveRejected ==
    /\ rpc # "new" => retries >= 1
    /\ rpc = "done" => Len(hist) >= 1

\* the retry lines for the first n invocations of the current call
NotesFor(n) == [i \in 1..n |-> RetryMessage(i, retries, hist[i].val)]

\* C8: a retry notification is emitted exactly once for each failed attempt
\* that is followed by another attempt, numbered by the attempt, and none
\* for the last attempt of the call, failed or successful.
C8_NotificationPerRetry ==
    /\ rpc = "loop" =>
          /\ notes = NotesFor(Len(hist))
          /\ Len(hist) > 0 => LoopCond(attempts, retries)
    /\ rpc = "done" =>
          notes = NotesFor(IF Len(hist) = 0 THEN 0 ELSE Len(hist) - 1)
    /\ (rpc = "done" /\ retries = 1 /\ AlwaysFails) =>
          Len(hist) = 1 /\ notes = <<>>

C8_Witness ==
    /\ rpc = "done"
    /\ retries = 3
    /\ Len(hist) = 3
    /\ FirstOk(3)
    /\ outcome = Return(hist[3].val)
    /\ Len(notes) = 2
    /\ notes[1].n = 1
    /\ notes[2].n = 2

----------------------------------------------------------------------------
\* Properties of the log_to_file wrapper (checked under SpecRecorder)

\* a wrapped call has just handed its outcome to the caller
CallDone == cpc = "idle" /\ caller.kind # "none"

\* the lines appended by the current call
NewLines == SubSeq(log, Len(logAtCall) + 1, Len(log))

\* appends attempted by the current call that raised
SinkFaults == appendTries - (Len(log) - Len(logAtCall))

IsPrefix(s, t) == Len(s) <= Len(t) /\ SubSeq(t, 1, Len(s)) = s

\* C5: when an append to the log fails during a call, the caller still gets
\* the function's own outcome: its value when it succeeded, with no FAILURE
\* line written, and its own failure when it failed.
C5_SinkFailureDoesNotMask ==
    (CallDone /\ SinkFaults > 0) =>
        /\ funcOut.kind = "ok" =>
              /\ caller = CReturn(funcOut.val)
              /\ \A i \in 1..Len(NewLines) : NewLines[i].outcome # "FAILURE"
        /\ funcOut.kind = "err" => caller = CRaise(funcOut.exc)

\* C6: a call whose function fails appends exactly one FAILURE line with
\* the error's description and no SUCCESS line, and the caller gets the
\* original failure.
C6_FailureRecordedAndReraised ==
    (CallDone /\ funcOut.kind = "err") =>
        /\ log = Append(logAtCall, FailureLine(cur, funcOut.exc))
        /\ caller = CRaise(funcOut.exc)

\* C7: a call whose function succeeds appends exactly one SUCCESS line with
\* the returned value and no FAILURE line, and the caller gets the
\* function's return value.
C7_SuccessRecordedAndReturned ==
    (CallDone /\ funcOut.kind = "ok") =>
        /\ log = Append(logAtCall, SuccessLine(cur, funcOut.val))
        /\ caller = CReturn(funcOut.val)

\* C9: a call runs the function exactly once and attempts exactly one
\* append, after the function has completed; lines already in the log stay
\* as they are; between calls the log holds one line per completed call, in
\* completion order.
C9_OneAppendAfterCompletion ==
    /\ cpc = "try" => log = logAtCall /\ appendTries = 0 /\ funcRuns = 0
    /\ cpc \in {"logSuccess", "logFailure"} => funcRuns = 1
    /\ CallDone => funcRuns = 1 /\ appendTries = 1
    /\ IsPrefix(logAtCall, log)
    /\ cpc = "idle" =>
          /\ Len(log) = Len(completed)
          /\ \A i \in 1..Len(log) :
                log[i].name = completed[i].name /\ log[i].arg = completed[i].arg

\* C10: divide(0) raises ValueError to the caller, leaves Calculator.value
\* as it was before the call, and appends exactly one FAILURE line and no
\* SUCCESS line.
C10_DivideByZeroFrame ==
    (CallDone /\ cur.name = "divide" /\ cur.arg = 0) =>
        /\ caller = CRaise(DivideByZero)
        /\ value = valueAtCall
        /\ log = Append(logAtCall, FailureLine(cur, DivideByZero))

\* With no failing append in the call, the wrapper records and hands over
\* exactly what the function did (the case C6, C7, C9 and C10 describe).
FaultFreeCallRecorded ==
    (CallDone /\ SinkFaults = 0) =>
        /\ funcRuns = 1 /\ appendTries = 1
        /\ value = ValueAfter(cur.name, valueAtCall, cur.arg)
        /\ funcOut.kind = "ok" =>
              /\ log = Append(logAtCall, SuccessLine(cur, funcOut.val))
              /\ caller = CReturn(funcOut.val)
        /\ funcOut.kind = "err" =>
              /\ log = Append(logAtCall, FailureLine(cur, funcOut.exc))
              /\ caller = CRaise(funcOut.exc)
              /\ value = valueAtCall

====
